---- MODULE Spec2Model ----
(***************************************************************************)
(* Model of the product scraper: scrapeProductsFinal.py (setup_webdriver,  *)
(* safe_find_element, safe_find_elements, the field extractors,            *)
(* extract_reviews, scrape_product, main) and of the review loop of        *)
(* alternate/paginatedProject.py.                                          *)
(*                                                                         *)
(* A Python str is a sequence of one-character strings, so that the        *)
(* regular expressions and str.replace are computed, not assumed.          *)
(* A Python value is a record [kind, val]: kind "str", "int", "list",      *)
(* "none" or "dict".                                                       *)
(***************************************************************************)
EXTENDS Integers, Sequences, FiniteSets, TLC

\* ------------------------------------------------------------------ bounds

\* Product ids of product_id_range are 1..MaxProducts.
MaxProducts == 2
\* Transient WebDriver faults (stale reference, unexpected error, failing
\* find_elements, failing read of .text) injected in one run.
MaxFaults == 2

\* ------------------------------------------------------------ Python values

StrV(s) == [kind |-> "str", val |-> s]
IntV(n) == [kind |-> "int", val |-> n]
ListV(l) == [kind |-> "list", val |-> l]
None == [kind |-> "none", val |-> 0]

\* ------------------------------------------------------------ str helpers

Digits == {"0", "1", "2", "3", "4", "5", "6", "7", "8", "9"}

IsDigit(s, i) == i >= 1 /\ i <= Len(s) /\ s[i] \in Digits

\* The literal lit occurs in s at position i.
LitAt(s, i, lit) ==
    /\ i >= 1
    /\ i + Len(lit) - 1 <= Len(s)
    /\ \A k \in 1..Len(lit) : s[i + k - 1] = lit[k]

\* Python's `lit in s`.
Contains(s, lit) == \E i \in 1..(Len(s) + 1) : LitAt(s, i, lit)

\* Last position of the run of digits that starts at i (i - 1 if s[i] is no digit).
RECURSIVE DigitRunEnd(_, _)
DigitRunEnd(s, i) == IF IsDigit(s, i) THEN DigitRunEnd(s, i + 1) ELSE i - 1

DigitValue(c) ==
    CASE c = "0" -> 0 [] c = "1" -> 1 [] c = "2" -> 2 [] c = "3" -> 3
      [] c = "4" -> 4 [] c = "5" -> 5 [] c = "6" -> 6 [] c = "7" -> 7
      [] c = "8" -> 8 [] c = "9" -> 9

DigitChar(d) ==
    CASE d = 0 -> "0" [] d = 1 -> "1" [] d = 2 -> "2" [] d = 3 -> "3"
      [] d = 4 -> "4" [] d = 5 -> "5" [] d = 6 -> "6" [] d = 7 -> "7"
      [] d = 8 -> "8" [] d = 9 -> "9"

\* Python's int(s) for a str of decimal digits.
RECURSIVE PyInt(_)
PyInt(s) ==
    IF Len(s) = 0 THEN 0
    ELSE 10 * PyInt(SubSeq(s, 1, Len(s) - 1)) + DigitValue(s[Len(s)])

\* Python's str(n) for n >= 0, as used by an f-string.
RECURSIVE PyStr(_)
PyStr(n) ==
    IF n < 10 THEN <<DigitChar(n)>>
    ELSE PyStr(n \div 10) \o <<DigitChar(n % 10)>>

\* Smallest element of a non-empty set of integers.
Min(S) == CHOOSE x \in S : \A y \in S : x <= y

\* --------------------------------------------------------------- literals

L_OutOf5Stars == <<" ", "o", "u", "t", " ", "o", "f", " ", "5", " ", "s", "t", "a", "r", "s">>
L_Reviews == <<" ", "r", "e", "v", "i", "e", "w", "s">>
L_Slash5Stars == <<"/", "5", " ", "S", "t", "a", "r", "s">>
L_By == <<"B", "y", " ">>
L_On == <<" ", "o", "n">>
L_OnSp == <<"o", "n", " ">>
L_SkuPrefix == <<"S", "K", "U", ":", " ">>
L_InStock == <<"I", "n", " ", "s", "t", "o", "c", "k">>
L_OutOfStock == <<"O", "u", "t", " ", "o", "f", " ", "s", "t", "o", "c", "k">>
L_NA == <<"N", "/", "A">>
L_Unknown == <<"U", "n", "k", "n", "o", "w", "n">>
L_Anonymous == <<"A", "n", "o", "n", "y", "m", "o", "u", "s">>
L_UnknownDate == <<"U", "n", "k", "n", "o", "w", "n", " ", "D", "a", "t", "e">>
L_UntitledReview == <<"U", "n", "t", "i", "t", "l", "e", "d", " ", "R", "e", "v", "i", "e", "w">>
L_NoReviewText == <<"N", "o", " ", "r", "e", "v", "i", "e", "w", " ", "t", "e", "x", "t">>
L_NoChecksum == <<"N", "o", " ", "C", "h", "e", "c", "k", "s", "u", "m">>
L_UntitledProduct == <<"U", "n", "t", "i", "t", "l", "e", "d", " ", "P", "r", "o", "d", "u", "c", "t">>
L_PriceUnavailable == <<"P", "r", "i", "c", "e", " ", "U", "n", "a", "v", "a", "i", "l", "a", "b", "l", "e">>
L_NoDescription == <<"N", "o", " ", "D", "e", "s", "c", "r", "i", "p", "t", "i", "o", "n", " ", "A", "v", "a", "i", "l", "a", "b", "l", "e">>
L_StockStatusUnavailable == <<"S", "t", "o", "c", "k", " ", "S", "t", "a", "t", "u", "s", " ", "U", "n", "a", "v", "a", "i", "l", "a", "b", "l", "e">>
L_SkuUnavailable == <<"S", "K", "U", " ", "U", "n", "a", "v", "a", "i", "l", "a", "b", "l", "e">>
L_UnspecifiedStock == <<"U", "n", "s", "p", "e", "c", "i", "f", "i", "e", "d", " ", "S", "t", "o", "c", "k">>

\* ------------------------------------------------------ regular expressions
\* Each search returns the captured group(1) as <<group>>, or <<>> for no match.

\* End of a match of (\d+(\.\d+)?) at i followed by " out of 5 stars", or 0.
RatingGroupEnd(s, i) ==
    LET q == DigitRunEnd(s, i)
        r == DigitRunEnd(s, q + 2)
    IN  IF ~IsDigit(s, i) THEN 0
        ELSE IF LitAt(s, q + 1, <<".">>) /\ IsDigit(s, q + 2) /\ LitAt(s, r + 1, L_OutOf5Stars)
             THEN r
        ELSE IF LitAt(s, q + 1, L_OutOf5Stars) THEN q
        ELSE 0

\* re.search(r'(\d+(\.\d+)?) out of 5 stars', s)
SearchOverallRating(s) ==
    LET starts == {i \in 1..Len(s) : RatingGroupEnd(s, i) # 0}
    IN  IF starts = {} THEN <<>>
        ELSE <<SubSeq(s, Min(starts), RatingGroupEnd(s, Min(starts)))>>

\* re.search(r'(\d+) reviews', s)
SearchTotalReviews(s) ==
    LET starts == {i \in 1..Len(s) :
                      IsDigit(s, i) /\ LitAt(s, DigitRunEnd(s, i) + 1, L_Reviews)}
    IN  IF starts = {} THEN <<>>
        ELSE <<SubSeq(s, Min(starts), DigitRunEnd(s, Min(starts)))>>

\* re.search(r'(\d+)', s)
SearchInteger(s) ==
    LET starts == {i \in 1..Len(s) : IsDigit(s, i)}
    IN  IF starts = {} THEN <<>>
        ELSE <<SubSeq(s, Min(starts), DigitRunEnd(s, Min(starts)))>>

\* re.search(r'By (.+?) on', s): the lazy group ends at the first " on" that
\* leaves it at least one character.
SearchReviewerName(s) ==
    LET ends(i) == {e \in (i + 4)..Len(s) : LitAt(s, e, L_On)}
        starts == {i \in 1..Len(s) : LitAt(s, i, L_By) /\ ends(i) # {}}
    IN  IF starts = {} THEN <<>>
        ELSE <<SubSeq(s, Min(starts) + 3, Min(ends(Min(starts))) - 1)>>

\* End of a match of \d{1,2}/\d{1,2}/\d{4} at i, or 0.
DateEnd(s, i) ==
    LET ok == {x \in {1, 2} \X {1, 2} :
                  /\ \A k \in 0..(x[1] - 1) : IsDigit(s, i + k)
                  /\ LitAt(s, i + x[1], <<"/">>)
                  /\ \A k \in 0..(x[2] - 1) : IsDigit(s, i + x[1] + 1 + k)
                  /\ LitAt(s, i + x[1] + 1 + x[2], <<"/">>)
                  /\ \A k \in 0..3 : IsDigit(s, i + x[1] + x[2] + 2 + k)}
        x == CHOOSE y \in ok : TRUE
    IN  IF ok = {} THEN 0 ELSE i + x[1] + x[2] + 5

\* re.search(r'on (\d{1,2}/\d{1,2}/\d{4})', s)
SearchReviewDate(s) ==
    LET starts == {i \in 1..Len(s) : LitAt(s, i, L_OnSp) /\ DateEnd(s, i + 3) # 0}
    IN  IF starts = {} THEN <<>>
        ELSE <<SubSeq(s, Min(starts) + 3, DateEnd(s, Min(starts) + 3))>>

\* str.replace(old, ""): every non-overlapping occurrence of old, left to right.
RECURSIVE RemoveAll(_, _)
RemoveAll(s, old) ==
    IF Len(s) = 0 THEN s
    ELSE IF LitAt(s, 1, old) THEN RemoveAll(SubSeq(s, Len(old) + 1, Len(s)), old)
    ELSE <<s[1]>> \o RemoveAll(Tail(s), old)

\* ------------------------------------------------------------ the pages
\* A page is what driver.get leaves loaded: for each locator of the scripts the
\* texts of the elements it matches, in document order. A review block holds
\* the matches of the locators scoped to it.

T_Title == <<"L", "a", "m", "p">>
T_Price == <<"$", "9">>
T_Category == <<"H", "o", "m", "e">>
T_Image == <<"a", ".", "p", "n", "g">>
T_Description == <<"A", " ", "l", "a", "m", "p">>
T_Rating == <<"4", ".", "5">> \o L_OutOf5Stars \o <<",", " ", "1", "2", "8">> \o L_Reviews
T_RatingOnly == <<"4">> \o L_OutOf5Stars
T_Qty == <<"1", "2", " ", "l", "e", "f", "t">>
T_QtyNoInt == <<"f", "e", "w">>
T_Sku == L_SkuPrefix \o <<"A", "-", "1">>
T_SkuTwice == L_SkuPrefix \o <<"A", "-">> \o L_SkuPrefix \o <<"1">>
T_Code == <<"c", "0", "f", "e">>
T_Info1 == L_By \o <<"A", "l">> \o L_On \o <<" ", "1", "/", "2", "/", "2", "0", "2", "4">>
T_Info2 == L_By \o <<"B", "o">> \o L_On \o <<" ", "1", "1", "/", "3", "0", "/", "2", "0", "2", "3">>
T_RevTitle1 == <<"G", "o", "o", "d">>
T_RevTitle2 == <<"B", "a", "d">>
T_RevBody == <<"O", "k">>
T_RevCode == <<"b", "e", "e", "f">>

Block1 ==
    [info |-> <<T_Info1>>, stars |-> 2, title |-> <<T_RevTitle1>>,
     body |-> <<T_RevBody>>, code |-> <<T_RevCode>>]
Block2 ==
    [info |-> <<T_Info2>>, stars |-> 0, title |-> <<T_RevTitle2>>,
     body |-> <<T_RevBody>>, code |-> <<T_RevCode>>]
\* A review block without the reviewer line.
BlockNoInfo == [Block1 EXCEPT !.info = <<>>]

PageFull ==
    [h1 |-> <<T_Title>>, price |-> <<T_Price>>, categories |-> <<T_Category>>,
     images |-> <<T_Image>>, description |-> <<T_Description>>,
     rating |-> <<T_Rating>>, status |-> <<L_InStock>>, qty |-> <<T_Qty>>,
     sku |-> <<T_Sku>>, code |-> <<T_Code>>, blocks |-> <<Block1, Block2>>]

\* The pages the site serves: the full page and pages that differ from it in
\* one place.
Pages ==
    { PageFull,
      [PageFull EXCEPT !.h1 = <<>>],
      [PageFull EXCEPT !.price = <<>>],
      [PageFull EXCEPT !.description = <<>>],
      [PageFull EXCEPT !.rating = <<>>],
      [PageFull EXCEPT !.rating = <<T_RatingOnly>>],
      [PageFull EXCEPT !.status = <<>>],
      [PageFull EXCEPT !.status = <<L_OutOfStock>>, !.qty = <<>>],
      [PageFull EXCEPT !.qty = <<>>],
      [PageFull EXCEPT !.qty = <<T_QtyNoInt>>],
      [PageFull EXCEPT !.sku = <<>>, !.blocks = <<>>],
      [PageFull EXCEPT !.sku = <<T_SkuTwice>>, !.blocks = <<>>],
      [PageFull EXCEPT !.categories = <<>>, !.images = <<>>, !.code = <<>>, !.blocks = <<>>],
      [PageFull EXCEPT !.blocks = <<BlockNoInfo, Block2>>],
      [PageFull EXCEPT !.blocks = <<Block1, BlockNoInfo>>] }

NoPage == [PageFull EXCEPT !.h1 = <<>>, !.blocks = <<>>]

RECURSIVE Flatten(_)
Flatten(ss) == IF Len(ss) = 0 THEN <<>> ELSE Head(ss) \o Flatten(Tail(ss))

BlockField(blocks, f) == Flatten([i \in 1..Len(blocks) |-> blocks[i][f]])

IsStockText(t) == Contains(t, L_InStock) \/ Contains(t, L_OutOfStock)

\* The elements a page-global locator of scrape_product matches. The XPath of
\* the SKU is that of a review's reviewer line, the XPath of the checksum that
\* of a review's checksum, and the stock status XPath asks for one of the two
\* stock texts.
Matches(pg, loc) ==
    CASE loc = "sku" -> pg.sku \o BlockField(pg.blocks, "info")
      [] loc = "code" -> pg.code \o BlockField(pg.blocks, "code")
      [] loc = "status" -> SelectSeq(pg.status, IsStockText)
      [] loc = "review_title" -> BlockField(pg.blocks, "title")
      [] OTHER -> pg[loc]

\* The <p> elements of a review block, in document order.
BlockPs(b) == b.title \o b.body \o b.info

\* The elements a locator scoped to a review block matches.
BlockMatches(b, loc) ==
    CASE loc = "p" -> BlockPs(b)
      [] loc = "stars" -> [i \in 1..b.stars |-> <<"*">>]
      [] OTHER -> b[loc]

\* ---------------------------------------------------------- the WebDriver
\* An outcome of one WebDriverWait(...).until(presence_of_element_located):
\* the element, or the exception it raises. The wait swallows
\* NoSuchElementException while it polls, so a locator that matches nothing
\* ends in TimeoutException.

Outcome(k, e) == [kind |-> k, elem |-> e]

\* What the wait does on an undisturbed page.
Natural(matches) ==
    IF Len(matches) = 0 THEN Outcome("timeout", <<>>) ELSE Outcome("found", matches[1])

RECURSIVE Stales(_)
Stales(k) == IF k = 0 THEN <<>> ELSE <<Outcome("stale", <<>>)>> \o Stales(k - 1)

\* The outcomes of the successive waits of one safe_find_element call: stale
\* references, then the outcome that ends the call, with at most `left`
\* transient faults.
Waits(matches, left) ==
    {Stales(k) \o <<Natural(matches)>> : k \in 0..left}
        \cup {Stales(k) \o <<Outcome("error", <<>>)>> : k \in 0..(left - 1)}

\* Transient faults among the outcomes.
Cost(outs) == Len(SelectSeq(outs, LAMBDA o : o.kind \in {"stale", "error"}))

\* Whether one call that can fail transiently (find_elements, .text,
\* get_attribute, driver.get) succeeds.
Tries(left) == IF left > 0 THEN {TRUE, FALSE} ELSE {TRUE}

\* The transient faults of one try.
TryCost(ok) == IF ok THEN 0 ELSE 1

\* One ERROR line of the log: the statement that logs it and the exception
\* it reports.
LogLine(at, exc) == [at |-> at, exc |-> exc]

\* The exception an outcome of a wait stands for.
ExcOf(o) ==
    CASE o.kind = "timeout" -> "TimeoutException"
      [] o.kind = "stale" -> "StaleElementReferenceException"
      [] o.kind = "nosuch" -> "NoSuchElementException"
      [] OTHER -> "WebDriverException"

\* Mutant: a stale reference is retried once only; a second one in a row is
\* raised as ScraperError.
safe_find_element_retry_once(outs) ==
    LET one(o, n) ==
            CASE o.kind = "found" ->
                   [res |-> "elem", elem |-> o.elem, lookups |-> n, backoffs |-> n - 1,
                    log |-> <<>>]
              [] o.kind = "nosuch" ->
                   [res |-> "none", elem |-> <<>>, lookups |-> n, backoffs |-> n - 1,
                    log |-> <<>>]
              [] OTHER ->
                   [res |-> "raise", elem |-> <<>>, lookups |-> n, backoffs |-> n - 1,
                    log |-> <<LogLine("safe_find_element", ExcOf(o))>>]
    IN  IF Head(outs).kind = "stale" THEN one(outs[2], 2) ELSE one(outs[1], 1)

\* safe_find_element: res "elem" (element found), "none" (None returned) or
\* "raise" (ScraperError), with the number of waits and of backoffs and the
\* ERROR lines logged.
RECURSIVE safe_find_element(_)
safe_find_element(outs) ==
    LET o == Head(outs)
    IN  CASE o.kind = "found" ->
               [res |-> "elem", elem |-> o.elem, lookups |-> 1, backoffs |-> 0,
                log |-> <<>>]
          [] o.kind = "nosuch" ->
               [res |-> "none", elem |-> <<>>, lookups |-> 1, backoffs |-> 0,
                log |-> <<>>]
          [] o.kind = "stale" ->
               LET r == safe_find_element(Tail(outs))
               IN  [r EXCEPT !.lookups = @ + 1, !.backoffs = @ + 1]
          [] OTHER ->
               [res |-> "raise", elem |-> <<>>, lookups |-> 1, backoffs |-> 0,
                log |-> <<LogLine("safe_find_element", ExcOf(o))>>]

\* Mutant: a failed find_elements is tried once more, and its exception is
\* raised (wrapped as in safe_find_element) when it fails again.
safe_find_elements_retries(matches, ok) ==
    [res |-> IF ok THEN "list" ELSE "raise",
     elems |-> IF ok THEN matches ELSE <<>>,
     lookups |-> IF ok THEN 1 ELSE 2,
     log |-> IF ok THEN <<>> ELSE <<LogLine("safe_find_elements", "WebDriverException")>>]

\* safe_find_elements: the matches of the one find_elements call, or [] and
\* an ERROR line when that call raises.
safe_find_elements(matches, ok) ==
    [res |-> "list",
     elems |-> IF ok THEN matches ELSE <<>>,
     lookups |-> 1,
     log |-> IF ok THEN <<>> ELSE <<LogLine("safe_find_elements", "WebDriverException")>>]

\* ------------------------------------------------------- field extractors
\* The result of evaluating one piece of code: ok (no exception) with its
\* value, or the exception raised; the transient faults it met and the ERROR
\* lines it logged.

Ok(v, c, l) == [ok |-> TRUE, val |-> v, exc |-> "", cost |-> c, log |-> l]
Raised(e, c, l) == [ok |-> FALSE, val |-> None, exc |-> e, cost |-> c, log |-> l]

\* element.text: the text, or an exception when the read fails.
Text(elem, textOk, c, l) ==
    IF textOk THEN Ok(StrV(elem), c, l)
    ELSE Raised("StaleElementReferenceException", c + 1, l)

\* `safe_find_element(..).text if safe_find_element(..) else fallback`:
\* the condition is evaluated first, then the lookup whose text is taken.
TextOrFallback(outsCond, outsVal, textOk, fallback) ==
    LET b == safe_find_element(outsCond)
        a == safe_find_element(outsVal)
    IN  IF b.res = "raise" THEN Raised("ScraperError", Cost(outsCond), b.log)
        ELSE IF b.res = "none" THEN Ok(StrV(fallback), Cost(outsCond), <<>>)
        ELSE IF a.res = "raise"
             THEN Raised("ScraperError", Cost(outsCond) + Cost(outsVal), a.log)
        ELSE IF a.res = "none"
             THEN Raised("AttributeError", Cost(outsCond) + Cost(outsVal), <<>>)
        ELSE Text(a.elem, textOk, Cost(outsCond) + Cost(outsVal), <<>>)

\* `element.text if element else fallback` after one safe_find_element.
FoundTextOr(outs, textOk, fallback) ==
    LET e == safe_find_element(outs)
    IN  IF e.res = "raise" THEN Raised("ScraperError", Cost(outs), e.log)
        ELSE IF e.res = "none" THEN Ok(StrV(fallback), Cost(outs), <<>>)
        ELSE Text(e.elem, textOk, Cost(outs), <<>>)

\* Mutant: without a rating match both results are "N/A".
extract_overall_rating_coupled(found, textOk) ==
    LET rating_text == found.elem
        overall_rating_match == SearchOverallRating(rating_text)
        total_reviews_match == SearchTotalReviews(rating_text)
    IN  IF found.res # "elem" \/ ~textOk \/ Len(overall_rating_match) = 0
        THEN Ok(<<StrV(L_NA), StrV(L_NA)>>, 0, <<>>)
        ELSE Ok(<< StrV(overall_rating_match[1] \o L_Slash5Stars),
                   IF Len(total_reviews_match) > 0
                   THEN IntV(PyInt(total_reviews_match[1]))
                   ELSE StrV(L_NA) >>, 0, <<>>)

\* extract_overall_rating(rating_element): <<overall rating, total reviews>>.
\* found is a safe_find_element result (an element or None).
extract_overall_rating(found, textOk) ==
    LET rating_text == found.elem
        overall_rating_match == SearchOverallRating(rating_text)
        total_reviews_match == SearchTotalReviews(rating_text)
    IN  IF found.res # "elem" THEN Ok(<<StrV(L_NA), StrV(L_NA)>>, 0, <<>>)
        ELSE IF ~textOk
             THEN Ok(<<StrV(L_NA), StrV(L_NA)>>, 1,
                     <<LogLine("extract_overall_rating", "StaleElementReferenceException")>>)
        ELSE Ok(<< IF Len(overall_rating_match) > 0
                   THEN StrV(overall_rating_match[1] \o L_Slash5Stars)
                   ELSE StrV(L_NA),
                   IF Len(total_reviews_match) > 0
                   THEN IntV(PyInt(total_reviews_match[1]))
                   ELSE StrV(L_NA) >>, 0, <<>>)

\* extract_stock_availability(driver): the value returned, the faults met,
\* the ERROR lines logged and whether the quantity element was looked up.
extract_stock_availability(outsStatus, statusTextOk, outsQty, qtyTextOk) ==
    LET stock_status_element == safe_find_element(outsStatus)
        stock_status_text == stock_status_element.elem
        stock_text_element == safe_find_element(outsQty)
        stock_match == SearchInteger(stock_text_element.elem)
        c1 == Cost(outsStatus)
        c2 == c1 + Cost(outsQty)
        R(v, c, q, l) == [ok |-> TRUE, val |-> v, exc |-> "", cost |-> c, log |-> l,
                          qtyLookup |-> q]
        E(c, q, l, e) == R(StrV(L_NA), c, q,
                           l \o <<LogLine("extract_stock_availability", e)>>)
    IN  IF stock_status_element.res = "raise"
        THEN E(c1, FALSE, stock_status_element.log, "ScraperError")
        ELSE IF stock_status_element.res = "none" THEN R(StrV(L_NA), c1, FALSE, <<>>)
        ELSE IF ~statusTextOk
             THEN E(c1 + 1, FALSE, <<>>, "StaleElementReferenceException")
        ELSE IF Contains(stock_status_text, L_OutOfStock) THEN R(IntV(0), c1, FALSE, <<>>)
        ELSE IF Contains(stock_status_text, L_InStock) THEN
            IF stock_text_element.res = "raise"
            THEN E(c2, TRUE, stock_text_element.log, "ScraperError")
            ELSE IF stock_text_element.res = "none"
                 THEN R(StrV(L_UnspecifiedStock), c2, TRUE, <<>>)
            ELSE IF ~qtyTextOk
                 THEN E(c2 + 1, TRUE, <<>>, "StaleElementReferenceException")
            ELSE IF Len(stock_match) > 0
                 THEN R(IntV(PyInt(stock_match[1])), c2, TRUE, <<>>)
            ELSE R(StrV(L_UnspecifiedStock), c2, TRUE, <<>>)
        ELSE R(StrV(L_NA), c1, FALSE, <<>>)

\* ------------------------------------------------------------------ state

VARIABLES
    pc,                \* where main is
    max_retries,       \* setup_webdriver's max_retries
    attempt,           \* setup_webdriver's attempt
    driver,            \* main's driver: "none", "open" or "closed" (after quit)
    quits,             \* calls of driver.quit()
    idx,               \* position of the loop in product_id_range
    total_attempted,
    total_successful,
    failed_products,
    data,
    output,            \* what json.dump wrote, None before
    calls,             \* the product ids scrape_product was called with, in order
    ppc,               \* where scrape_product is
    page,              \* the page the driver has loaded
    row,
    result,            \* what scrape_product returned
    rpc,               \* where extract_reviews is
    review_elements,
    bi,                \* position of extract_reviews in review_elements
    reviewID,
    review_data,
    reviews,
    faults,            \* transient faults met so far
    errlog,            \* ERROR lines logged by the scrape_product call main is in
    fn_in,             \* a resolver function called on its own: the call
    fn_out,            \* and what it returned
    gpc,               \* where the paginated script is
    current_page,      \* the paginated script's listing page number
    product_urls,      \* the product pages the listing page links to
    url_i              \* position of the paginated script in product_urls

vars ==
    <<pc, max_retries, attempt, driver, quits, idx, total_attempted,
      total_successful, failed_products, data, output, calls, ppc, page, row,
      result, rpc, review_elements, bi, reviewID, review_data, reviews, faults,
      errlog, fn_in, fn_out, gpc, current_page, product_urls, url_i>>

\* The variables main and scrape_product never touch.
otherVars == <<fn_in, fn_out, gpc, current_page, product_urls, url_i>>
mainVars ==
    <<otherVars, pc, max_retries, attempt, driver, quits, idx, total_attempted,
      total_successful, failed_products, data, output, calls>>
reviewVars == <<rpc, review_elements, bi, reviewID, review_data, reviews>>

\* main's default product_id_range, cut to MaxProducts ids.
product_id_range == [i \in 1..MaxProducts |-> i]

\* main's call setup_webdriver(headless) leaves max_retries at its default.
DefaultMaxRetries == 3

EmptyDict == <<>>
NoCall == [fn |-> "none"]
Dict(d) == [kind |-> "dict", val |-> d]
\* d[k] = v
Put(d, k, v) == [x \in DOMAIN d \cup {k} |-> IF x = k THEN v ELSE d[x]]

Left == MaxFaults - faults

Init ==
    /\ pc = "setup"
    /\ max_retries = DefaultMaxRetries
    /\ attempt = 0
    /\ driver = "none"
    /\ quits = 0
    /\ idx = 1
    /\ total_attempted = 0
    /\ total_successful = 0
    /\ failed_products = <<>>
    /\ data = <<>>
    /\ output = None
    /\ calls = <<>>
    /\ ppc = "idle"
    /\ page = NoPage
    /\ row = EmptyDict
    /\ result = None
    /\ rpc = "idle"
    /\ review_elements = <<>>
    /\ bi = 1
    /\ reviewID = 0
    /\ review_data = EmptyDict
    /\ reviews = <<>>
    /\ faults = 0
    /\ errlog = <<>>
    /\ fn_in = NoCall
    /\ fn_out = NoCall
    /\ gpc = "idle"
    /\ current_page = 1
    /\ product_urls = <<>>
    /\ url_i = 1

\* --------------------------------------------------------- scrape_product

\* Mutant: the except clauses return the row filled so far.
SP_ExceptReturnsRow(r) ==
    /\ result' = Dict(row)
    /\ ppc' = "returned"
    /\ faults' = faults + r.cost
    /\ errlog' = errlog \o r.log \o <<LogLine("scrape_product", r.exc)>>
    /\ row' = EmptyDict

\* Mutant: the last except clause logs and raises again.
SP_ExceptReraises(r) ==
    /\ result' = [kind |-> "raised", val |-> 0]
    /\ ppc' = "returned"
    /\ faults' = faults + r.cost
    /\ errlog' = errlog \o r.log \o <<LogLine("scrape_product", r.exc)>>
    /\ row' = EmptyDict

\* The except clauses of scrape_product: TimeoutException, and any other
\* Exception, is logged and None is returned. The locals of a call end with it.
SP_Except(r) ==
    /\ result' = None
    /\ ppc' = "returned"
    /\ faults' = faults + r.cost
    /\ errlog' = errlog \o r.log \o <<LogLine("scrape_product", r.exc)>>
    /\ row' = EmptyDict

\* row[key] = value, then the next statement.
SP_Assign(key, r, next) ==
    /\ row' = Put(row, key, r.val)
    /\ ppc' = next
    /\ faults' = faults + r.cost
    /\ errlog' = errlog \o r.log
    /\ UNCHANGED <<result, page>>

\* Mutant: each statement catches its own exception and goes on with "N/A".
SP_StatementCatches(key, r, next) ==
    IF r.ok THEN SP_Assign(key, r, next)
    ELSE SP_Assign(key, Ok(StrV(L_NA), r.cost, r.log), next)

\* One statement of scrape_product that sets row[key] from r, or raises.
SP_Statement(key, r, next) ==
    IF r.ok THEN SP_Assign(key, r, next) ELSE SP_Except(r) /\ UNCHANGED page

\* What the wait for the product title can do: the outcome on the page, or a
\* transient fault.
TitleWaits(pg, left) ==
    {Natural(Matches(pg, "h1"))} \cup
    (IF left > 0 THEN {Outcome("stale", <<>>), Outcome("error", <<>>)} ELSE {})

\* driver.get(url), then the wait for the product title. A failed get leaves
\* no product page.
SP_Navigate ==
    /\ ppc = "nav"
    /\ \E pg \in Pages, getOk \in Tries(Left) :
         \E w \in TitleWaits(pg, Left - TryCost(getOk)) :
            IF driver # "open" THEN
                SP_Except(Raised("AttributeError", 0, <<>>)) /\ UNCHANGED page
            ELSE IF ~getOk THEN
                SP_Except(Raised("WebDriverException", 1, <<>>)) /\ page' = NoPage
            ELSE IF w.kind # "found" THEN
                SP_Except(Raised(ExcOf(w), Cost(<<w>>), <<>>)) /\ page' = pg
            ELSE
                /\ page' = pg
                /\ ppc' = "titles"
                /\ UNCHANGED <<row, result, faults, errlog>>
    /\ UNCHANGED <<mainVars, reviewVars>>

\* product_titles = safe_find_elements(..); return None when there is none.
SP_Titles ==
    /\ ppc = "titles"
    /\ \E ok \in Tries(Left) :
         LET product_titles == safe_find_elements(Matches(page, "h1"), ok)
         IN  /\ faults' = faults + TryCost(ok)
             /\ errlog' = errlog \o product_titles.log
             /\ IF Len(product_titles.elems) = 0
                THEN /\ result' = None
                     /\ ppc' = "returned"
                     /\ UNCHANGED <<row, page>>
                ELSE /\ row' = EmptyDict
                     /\ ppc' = "title"
                     /\ UNCHANGED <<result, page>>
    /\ UNCHANGED <<mainVars, reviewVars>>

\* row[key] = safe_find_element(..).text if safe_find_element(..) else fallback
SP_TextField(at, key, loc, fallback, next) ==
    /\ ppc = at
    /\ \E outsCond \in Waits(Matches(page, loc), Left) :
         \E outsVal \in Waits(Matches(page, loc), Left - Cost(outsCond)) :
           \E textOk \in Tries(Left - Cost(outsCond) - Cost(outsVal)) :
              SP_Statement(key, TextOrFallback(outsCond, outsVal, textOk, fallback), next)
    /\ UNCHANGED <<mainVars, reviewVars>>

SP_Title == SP_TextField("title", "Product Title", "h1", L_UntitledProduct, "price")
SP_Price == SP_TextField("price", "Price", "price", L_PriceUnavailable, "categories")
SP_Description ==
    SP_TextField("description", "Description", "description", L_NoDescription, "rating")

\* [e.text for e in found]: the texts, or the exception of a failing read.
Texts(found, textOk) ==
    IF textOk
    THEN Ok(ListV([i \in 1..Len(found.elems) |-> StrV(found.elems[i])]),
            Len(found.log), found.log)
    ELSE Raised("StaleElementReferenceException", Len(found.log) + 1, found.log)

\* row[key] = [e.text for e in safe_find_elements(..)] (get_attribute('src')
\* for the images).
SP_ListField(at, key, loc, next) ==
    /\ ppc = at
    /\ \E ok \in Tries(Left) :
         LET found == safe_find_elements(Matches(page, loc), ok)
         IN  \E textOk \in IF Len(found.elems) = 0 THEN {TRUE}
                           ELSE Tries(Left - TryCost(ok)) :
                SP_Statement(key, Texts(found, textOk), next)
    /\ UNCHANGED <<mainVars, reviewVars>>

SP_Categories == SP_ListField("categories", "Categories", "categories", "images")
SP_Images == SP_ListField("images", "Product Image URLs", "images", "description")

\* overall_rating_element = safe_find_element(..);
\* row["Overall Rating"], row["Total Reviews"] = extract_overall_rating(..)
SP_Rating ==
    /\ ppc = "rating"
    /\ \E outs \in Waits(Matches(page, "rating"), Left) :
         \E textOk \in Tries(Left - Cost(outs)) :
           LET overall_rating_element == safe_find_element(outs)
               pair == extract_overall_rating(overall_rating_element, textOk)
           IN  IF overall_rating_element.res = "raise"
               THEN /\ SP_Except(Raised("ScraperError", Cost(outs),
                                        overall_rating_element.log))
                    /\ UNCHANGED page
               ELSE /\ row' = Put(Put(row, "Overall Rating", pair.val[1]),
                                  "Total Reviews", pair.val[2])
                    /\ ppc' = "status"
                    /\ faults' = faults + Cost(outs) + pair.cost
                    /\ errlog' = errlog \o pair.log
                    /\ UNCHANGED <<result, page>>
    /\ UNCHANGED <<mainVars, reviewVars>>

\* stock_status_element = safe_find_element(..); row["Inventory Status"] = ..
SP_Status ==
    /\ ppc = "status"
    /\ \E outs \in Waits(Matches(page, "status"), Left) :
         \E textOk \in Tries(Left - Cost(outs)) :
            SP_Statement("Inventory Status",
                         FoundTextOr(outs, textOk, L_StockStatusUnavailable), "stock")
    /\ UNCHANGED <<mainVars, reviewVars>>

\* row["Inventory Stock Available"] = extract_stock_availability(driver)
SP_Stock ==
    /\ ppc = "stock"
    /\ \E outsStatus \in Waits(Matches(page, "status"), Left) :
         \E statusTextOk \in Tries(Left - Cost(outsStatus)) :
           \E outsQty \in Waits(Matches(page, "qty"),
                                Left - Cost(outsStatus) - TryCost(statusTextOk)) :
             \E qtyTextOk \in Tries(Left - Cost(outsStatus) - TryCost(statusTextOk)
                                         - Cost(outsQty)) :
                SP_Statement("Inventory Stock Available",
                             extract_stock_availability(outsStatus, statusTextOk,
                                                        outsQty, qtyTextOk),
                             "sku")
    /\ UNCHANGED <<mainVars, reviewVars>>

\* sku_element = safe_find_element(..);
\* row["SKU"] = sku_element.text.replace("SKU: ", "") if sku_element else ..
SkuValue(outs, textOk) ==
    LET t == FoundTextOr(outs, textOk, L_SkuUnavailable)
    IN  IF t.ok /\ safe_find_element(outs).res = "elem"
        THEN Ok(StrV(RemoveAll(t.val.val, L_SkuPrefix)), t.cost, t.log)
        ELSE t

SP_Sku ==
    /\ ppc = "sku"
    /\ \E outs \in Waits(Matches(page, "sku"), Left) :
         \E textOk \in Tries(Left - Cost(outs)) :
            SP_Statement("SKU", SkuValue(outs, textOk), "checksum")
    /\ UNCHANGED <<mainVars, reviewVars>>

\* checksum_elements[0].text if checksum_elements else "N/A"
ChecksumValue(checksum_elements, textOk) ==
    LET c == Len(checksum_elements.log)
    IN  IF Len(checksum_elements.elems) = 0
        THEN Ok(StrV(L_NA), c, checksum_elements.log)
        ELSE Text(checksum_elements.elems[1], textOk, c, checksum_elements.log)

\* checksum_elements = safe_find_elements(..); row["Product Checksum"] = ..
SP_Checksum ==
    /\ ppc = "checksum"
    /\ \E ok \in Tries(Left) :
         LET checksum_elements == safe_find_elements(Matches(page, "code"), ok)
         IN  \E textOk \in IF Len(checksum_elements.elems) = 0 THEN {TRUE}
                           ELSE Tries(Left - TryCost(ok)) :
                SP_Statement("Product Checksum",
                             ChecksumValue(checksum_elements, textOk), "reviews")
    /\ UNCHANGED <<mainVars, reviewVars>>

\* -------------------------------------------------------- extract_reviews

\* row["Customer Reviews"] = extract_reviews(driver); return row
SP_ReturnRow(revs) ==
    /\ result' = Dict(Put(row, "Customer Reviews", ListV(revs)))
    /\ ppc' = "returned"
    /\ row' = EmptyDict
    /\ rpc' = "idle"
    /\ review_elements' = <<>>
    /\ bi' = 1
    /\ reviewID' = 0
    /\ review_data' = EmptyDict
    /\ reviews' = <<>>

\* reviews = []; reviewID = 0; review_elements = safe_find_elements(..);
\* an empty list is returned at once.
ER_Find ==
    /\ ppc = "reviews"
    /\ rpc = "idle"
    /\ \E ok \in Tries(Left) :
         LET found == safe_find_elements(Matches(page, "blocks"), ok)
         IN  /\ faults' = faults + TryCost(ok)
             /\ errlog' = errlog \o found.log
             /\ IF Len(found.elems) = 0
                THEN SP_ReturnRow(<<>>)
                ELSE /\ review_elements' = found.elems
                     /\ reviews' = <<>>
                     /\ reviewID' = 0
                     /\ bi' = 1
                     /\ rpc' = "begin"
                     /\ UNCHANGED <<row, result, ppc, review_data>>
    /\ UNCHANGED <<mainVars, page>>

\* Mutant: a block gets the ID that follows those of the reviews kept so far.
ER_BeginNumbersKept ==
    /\ rpc = "begin"
    /\ IF bi > Len(review_elements)
       THEN SP_ReturnRow(reviews)
       ELSE /\ reviewID' = Len(reviews) + 1
            /\ review_data' = Put(EmptyDict, "Review ID", IntV(Len(reviews) + 1))
            /\ rpc' = "name"
            /\ UNCHANGED <<row, result, ppc, review_elements, bi, reviews>>
    /\ UNCHANGED <<mainVars, page, faults, errlog>>

\* The head of `for review in review_elements`: the next block gets a fresh
\* review_data and the next reviewID; after the last block reviews is returned.
ER_Begin ==
    /\ rpc = "begin"
    /\ IF bi > Len(review_elements)
       THEN SP_ReturnRow(reviews)
       ELSE /\ reviewID' = reviewID + 1
            /\ review_data' = Put(EmptyDict, "Review ID", IntV(reviewID + 1))
            /\ rpc' = "name"
            /\ UNCHANGED <<row, result, ppc, review_elements, bi, reviews>>
    /\ UNCHANGED <<mainVars, page, faults, errlog>>

\* Mutant: the except clause leaves the loop (break for continue).
ER_SkipBreaks(r) ==
    /\ bi' = Len(review_elements) + 1
    /\ rpc' = "begin"
    /\ faults' = faults + r.cost
    /\ errlog' = errlog \o r.log \o <<LogLine("extract_reviews", r.exc)>>
    /\ UNCHANGED <<review_data, reviews>>

\* except Exception as review_error: log, continue with the next block.
ER_Skip(r) ==
    /\ bi' = bi + 1
    /\ rpc' = "begin"
    /\ faults' = faults + r.cost
    /\ errlog' = errlog \o r.log \o <<LogLine("extract_reviews", r.exc)>>
    /\ UNCHANGED <<review_data, reviews>>

\* review_data[key] = value, then the next statement.
ER_Put(key, r, next) ==
    /\ review_data' = Put(review_data, key, r.val)
    /\ rpc' = next
    /\ faults' = faults + r.cost
    /\ errlog' = errlog \o r.log
    /\ UNCHANGED <<bi, reviews>>

\* reviews.append(review_data) after the last field.
ER_Append(key, r) ==
    /\ review_data' = Put(review_data, key, r.val)
    /\ reviews' = Append(reviews, review_data')
    /\ bi' = bi + 1
    /\ rpc' = "begin"
    /\ faults' = faults + r.cost
    /\ errlog' = errlog \o r.log

\* One statement of the loop body that sets review_data[key] from r, or raises.
ER_Statement(key, r, next) ==
    IF ~r.ok THEN ER_Skip(r)
    ELSE IF next = "append" THEN ER_Append(key, r)
    ELSE ER_Put(key, r, next)

ER_Frame == UNCHANGED <<mainVars, page, row, result, ppc, review_elements, reviewID>>

\* Name: group 1 of 'By (.+?) on' in the reviewer line, or "Anonymous".
ReviewerName(outs, textOk) ==
    LET reviewer_info == FoundTextOr(outs, textOk, L_Unknown)
        name_match == SearchReviewerName(reviewer_info.val.val)
    IN  IF ~reviewer_info.ok THEN reviewer_info
        ELSE Ok(StrV(IF Len(name_match) > 0 THEN name_match[1] ELSE L_Anonymous),
                reviewer_info.cost, reviewer_info.log)

ER_Name ==
    /\ rpc = "name"
    /\ \E outs \in Waits(BlockMatches(review_elements[bi], "info"), Left) :
         \E textOk \in Tries(Left - Cost(outs)) :
            ER_Statement("Name", ReviewerName(outs, textOk), "rating")
    /\ ER_Frame

\* Rating: the number of star elements found.
StarRating(rating_stars) ==
    Ok(StrV(PyStr(Len(rating_stars.elems)) \o L_Slash5Stars),
       Len(rating_stars.log), rating_stars.log)

ER_Rating ==
    /\ rpc = "rating"
    /\ \E ok \in Tries(Left) :
         ER_Statement("Rating",
                      StarRating(safe_find_elements(
                          BlockMatches(review_elements[bi], "stars"), ok)),
                      "title")
    /\ ER_Frame

ER_TextField(at, key, loc, fallback, next) ==
    /\ rpc = at
    /\ \E outs \in Waits(BlockMatches(review_elements[bi], loc), Left) :
         \E textOk \in Tries(Left - Cost(outs)) :
            ER_Statement(key, FoundTextOr(outs, textOk, fallback), next)
    /\ ER_Frame

ER_Title == ER_TextField("title", "Title", "title", L_UntitledReview, "date")

\* Date: the date after "on " in the last <p> of the block when the block has
\* more than one <p>.
ReviewDate(review_p_elements, textOk) ==
    LET ps == review_p_elements.elems
        review_date_text == IF Len(ps) > 1 THEN ps[Len(ps)] ELSE L_NA
        match == SearchReviewDate(review_date_text)
        c == Len(review_p_elements.log)
    IN  IF Len(ps) > 1 /\ ~textOk
        THEN Raised("StaleElementReferenceException", c + 1, review_p_elements.log)
        ELSE Ok(StrV(IF Len(match) > 0 THEN match[1] ELSE L_UnknownDate),
                c, review_p_elements.log)

ER_Date ==
    /\ rpc = "date"
    /\ \E ok \in Tries(Left) :
         LET review_p_elements ==
                 safe_find_elements(BlockMatches(review_elements[bi], "p"), ok)
         IN  \E textOk \in IF Len(review_p_elements.elems) > 1
                           THEN Tries(Left - TryCost(ok)) ELSE {TRUE} :
                ER_Statement("Date", ReviewDate(review_p_elements, textOk), "body")
    /\ ER_Frame

ER_Body == ER_TextField("body", "Review Body", "body", L_NoReviewText, "checksum")
ER_Checksum == ER_TextField("checksum", "Review Checksum", "code", L_NoChecksum, "append")

\* ------------------------------------------------------------------- main

productVars == <<ppc, page, row, result, faults, errlog>>

\* What the attempts of one setup_webdriver call can do: webdriver.Chrome
\* returns a driver, raises WebDriverException, or something else is raised.
SetupOutcomes(n) ==
    [1..(IF n > 0 THEN n ELSE 0) -> {"driver", "WebDriverException", "Exception"}]

\* setup_webdriver(headless, max_retries) from `attempt` of its loop on: the
\* driver of the first attempt that succeeds, ScraperError when the last
\* attempt raises WebDriverException, and None when the loop ends.
RECURSIVE setup_webdriver(_, _, _)
setup_webdriver(n, outs, at) ==
    IF at >= n
    THEN [res |-> "none", exc |-> "", attempts |-> at, sleeps |-> 0, log |-> <<>>]
    ELSE IF outs[at + 1] = "driver"
    THEN [res |-> "driver", exc |-> "", attempts |-> at + 1, sleeps |-> 0, log |-> <<>>]
    ELSE IF outs[at + 1] = "WebDriverException"
    THEN IF at = n - 1
         THEN [res |-> "raise", exc |-> "ScraperError", attempts |-> at + 1,
               sleeps |-> 0, log |-> <<LogLine("setup_webdriver", "WebDriverException")>>]
         ELSE LET r == setup_webdriver(n, outs, at + 1)
              IN  [r EXCEPT !.sleeps = @ + 1,
                            !.log = <<LogLine("setup_webdriver", "WebDriverException")>> \o @]
    ELSE [res |-> "raise", exc |-> "Exception", attempts |-> at + 1, sleeps |-> 0,
          log |-> <<>>]

\* driver = setup_webdriver(headless) in main: an exception goes to main's
\* except clause.
M_Setup ==
    /\ pc = "setup"
    /\ \E outs \in SetupOutcomes(max_retries) :
         LET r == setup_webdriver(max_retries, outs, 0)
         IN  /\ attempt' = r.attempts
             /\ IF r.res = "raise"
                THEN pc' = "finally" /\ UNCHANGED driver
                ELSE /\ pc' = "loop"
                     /\ driver' = IF r.res = "driver" THEN "open" ELSE "none"
    /\ UNCHANGED <<otherVars, max_retries, quits, idx, total_attempted, total_successful,
                   failed_products, data, output, calls, productVars, reviewVars>>

\* The head of `for id in product_id_range`: total_attempted += 1 and the
\* call of scrape_product(driver, id); after the last id, on to json.dump.
M_Loop ==
    /\ pc = "loop"
    /\ IF idx <= Len(product_id_range)
       THEN /\ total_attempted' = total_attempted + 1
            /\ calls' = Append(calls, product_id_range[idx])
            /\ ppc' = "nav"
            /\ pc' = "call"
       ELSE /\ pc' = "write"
            /\ UNCHANGED <<total_attempted, calls, ppc>>
    /\ UNCHANGED <<otherVars, max_retries, attempt, driver, quits, idx, total_successful,
                   failed_products, data, output, page, row, result, faults,
                   errlog, reviewVars>>

\* Python's truth of what scrape_product returned: a non-empty dict.
Truthy(v) == v.kind = "dict" /\ DOMAIN v.val # {}

\* Mutant: a product that yields no data ends the loop (break).
M_HandleBreaks ==
    /\ pc = "call"
    /\ ppc = "returned"
    /\ IF result.kind # "raised" /\ Truthy(result)
       THEN /\ data' = Append(data, result)
            /\ total_successful' = total_successful + 1
            /\ pc' = "loop"
            /\ UNCHANGED failed_products
       ELSE /\ failed_products' = Append(failed_products, product_id_range[idx])
            /\ pc' = "write"
            /\ UNCHANGED <<data, total_successful>>
    /\ idx' = idx + 1
    /\ ppc' = "idle"
    /\ errlog' = <<>>
    /\ UNCHANGED <<otherVars, max_retries, attempt, driver, quits, total_attempted, output,
                   calls, page, row, result, faults, reviewVars>>

\* Mutant: a product that yields no data is not added to failed_products.
M_HandleForgetsFailed ==
    /\ pc = "call"
    /\ ppc = "returned"
    /\ IF result.kind # "raised" /\ Truthy(result)
       THEN /\ data' = Append(data, result)
            /\ total_successful' = total_successful + 1
            /\ UNCHANGED failed_products
       ELSE UNCHANGED <<failed_products, data, total_successful>>
    /\ idx' = idx + 1
    /\ pc' = "loop"
    /\ ppc' = "idle"
    /\ errlog' = <<>>
    /\ UNCHANGED <<otherVars, max_retries, attempt, driver, quits, total_attempted, output,
                   calls, page, row, result, faults, reviewVars>>

\* The body of the loop after scrape_product has returned (or raised).
M_Handle ==
    /\ pc = "call"
    /\ ppc = "returned"
    /\ IF result.kind # "raised" /\ Truthy(result)
       THEN /\ data' = Append(data, result)
            /\ total_successful' = total_successful + 1
            /\ UNCHANGED failed_products
       ELSE /\ failed_products' = Append(failed_products, product_id_range[idx])
            /\ UNCHANGED <<data, total_successful>>
    /\ idx' = idx + 1
    /\ pc' = "loop"
    /\ ppc' = "idle"
    /\ errlog' = <<>>
    /\ UNCHANGED <<otherVars, max_retries, attempt, driver, quits, total_attempted, output,
                   calls, page, row, result, faults, reviewVars>>

\* json.dump(data, json_file, indent=4), then the summary; an exception while
\* writing goes to main's except clause.
M_Write ==
    /\ pc = "write"
    /\ \E ok \in BOOLEAN :
         IF ok THEN output' = ListV(data) /\ pc' = "summary"
         ELSE pc' = "finally" /\ UNCHANGED output
    /\ UNCHANGED <<otherVars, max_retries, attempt, driver, quits, idx, total_attempted,
                   total_successful, failed_products, data, calls, productVars,
                   reviewVars>>

\* The logging of the statistics.
M_Summary ==
    /\ pc = "summary"
    /\ pc' = "finally"
    /\ UNCHANGED <<otherVars, max_retries, attempt, driver, quits, idx, total_attempted,
                   total_successful, failed_products, data, output, calls,
                   productVars, reviewVars>>

\* Mutant: driver.quit() at the end of the try block instead of in finally.
M_FinallyAfterSummary ==
    /\ pc = "finally"
    /\ IF driver = "open" /\ output # None
       THEN driver' = "closed" /\ quits' = quits + 1
       ELSE UNCHANGED <<driver, quits>>
    /\ pc' = "done"
    /\ UNCHANGED <<otherVars, max_retries, attempt, idx, total_attempted, total_successful,
                   failed_products, data, output, calls, productVars, reviewVars>>

\* finally: if driver: driver.quit()
M_Finally ==
    /\ pc = "finally"
    /\ IF driver = "open"
       THEN driver' = "closed" /\ quits' = quits + 1
       ELSE UNCHANGED <<driver, quits>>
    /\ pc' = "done"
    /\ UNCHANGED <<otherVars, max_retries, attempt, idx, total_attempted, total_successful,
                   failed_products, data, output, calls, productVars, reviewVars>>

Next ==
    \/ M_Setup
    \/ M_Loop
    \/ M_Handle
    \/ M_Write
    \/ M_Summary
    \/ M_Finally
    \/ SP_Navigate
    \/ SP_Titles
    \/ SP_Title
    \/ SP_Price
    \/ SP_Categories
    \/ SP_Images
    \/ SP_Description
    \/ SP_Rating
    \/ SP_Status
    \/ SP_Stock
    \/ SP_Sku
    \/ SP_Checksum
    \/ ER_Find
    \/ ER_Begin
    \/ ER_Name
    \/ ER_Rating
    \/ ER_Title
    \/ ER_Date
    \/ ER_Body
    \/ ER_Checksum

Spec == Init /\ [][Next]_vars

\* One call scrape_product(driver, 1) with an open driver, as main's loop
\* makes it, followed to its return.
InitProduct ==
    /\ pc = "call"
    /\ max_retries = DefaultMaxRetries
    /\ attempt = 0
    /\ driver = "open"
    /\ quits = 0
    /\ idx = 1
    /\ total_attempted = 1
    /\ total_successful = 0
    /\ failed_products = <<>>
    /\ data = <<>>
    /\ output = None
    /\ calls = <<product_id_range[1]>>
    /\ ppc = "nav"
    /\ page = NoPage
    /\ row = EmptyDict
    /\ result = None
    /\ rpc = "idle"
    /\ review_elements = <<>>
    /\ bi = 1
    /\ reviewID = 0
    /\ review_data = EmptyDict
    /\ reviews = <<>>
    /\ faults = 0
    /\ errlog = <<>>
    /\ fn_in = NoCall
    /\ fn_out = NoCall
    /\ gpc = "idle"
    /\ current_page = 1
    /\ product_urls = <<>>
    /\ url_i = 1

NextProduct ==
    \/ SP_Navigate
    \/ SP_Titles
    \/ SP_Title
    \/ SP_Price
    \/ SP_Categories
    \/ SP_Images
    \/ SP_Description
    \/ SP_Rating
    \/ SP_Status
    \/ SP_Stock
    \/ SP_Sku
    \/ SP_Checksum
    \/ ER_Find
    \/ ER_Begin
    \/ ER_Name
    \/ ER_Rating
    \/ ER_Title
    \/ ER_Date
    \/ ER_Body
    \/ ER_Checksum

SpecProduct == InitProduct /\ [][NextProduct]_vars

\* ------------------------------------------------------------ the resolver
\* The two resolver functions on their own: a caller passes a locator (the
\* elements it matches) and the driver behaves in one of the ways it can.
Locators ==
    {"h1", "price", "categories", "images", "description", "rating", "status",
     "qty", "sku", "code", "review_title"}
BlockLocators == {"info", "title", "body", "code", "p", "stars"}

ResolverMatches ==
    {Matches(pg, loc) : pg \in Pages, loc \in Locators}
        \cup {BlockMatches(b, loc) : b \in {Block1, Block2, BlockNoInfo}, loc \in BlockLocators}

ResolverCalls ==
    {[fn |-> "safe_find_element", matches |-> m, outs |-> o, ok |-> TRUE] :
        m \in ResolverMatches, o \in UNION {Waits(mm, MaxFaults) : mm \in ResolverMatches}}
    \cup {[fn |-> "safe_find_elements", matches |-> m, outs |-> <<>>, ok |-> b] :
        m \in ResolverMatches, b \in BOOLEAN}

\* The calls a driver can answer: the last wait ends the way the page
\* decides, or in an unexpected error.
IsCall(c) == c.fn = "safe_find_elements" \/ c.outs \in Waits(c.matches, MaxFaults)

resolverFrame ==
    <<pc, max_retries, attempt, driver, quits, idx, total_attempted,
      total_successful, failed_products, data, output, calls, ppc, page, row,
      result, rpc, review_elements, bi, reviewID, review_data, reviews, faults,
      errlog, gpc, current_page, product_urls, url_i>>

InitResolver ==
    /\ pc = "call"
    /\ max_retries = DefaultMaxRetries
    /\ attempt = 0
    /\ driver = "open"
    /\ quits = 0
    /\ idx = 1
    /\ total_attempted = 1
    /\ total_successful = 0
    /\ failed_products = <<>>
    /\ data = <<>>
    /\ output = None
    /\ calls = <<product_id_range[1]>>
    /\ ppc = "idle"
    /\ page = NoPage
    /\ row = EmptyDict
    /\ result = None
    /\ rpc = "idle"
    /\ review_elements = <<>>
    /\ bi = 1
    /\ reviewID = 0
    /\ review_data = EmptyDict
    /\ reviews = <<>>
    /\ faults = 0
    /\ errlog = <<>>
    /\ fn_in \in {c \in ResolverCalls : IsCall(c)}
    /\ fn_out = NoCall
    /\ gpc = "idle"
    /\ current_page = 1
    /\ product_urls = <<>>
    /\ url_i = 1

\* safe_find_element(driver, by, value) runs and returns or raises.
R_FindOne ==
    /\ fn_in.fn = "safe_find_element"
    /\ fn_out = NoCall
    /\ fn_out' = [fn |-> fn_in.fn, r |-> safe_find_element(fn_in.outs)]
    /\ UNCHANGED <<resolverFrame, fn_in>>

\* safe_find_elements(driver, by, value) runs and returns.
R_FindMany ==
    /\ fn_in.fn = "safe_find_elements"
    /\ fn_out = NoCall
    /\ fn_out' = [fn |-> fn_in.fn, r |-> safe_find_elements(fn_in.matches, fn_in.ok)]
    /\ UNCHANGED <<resolverFrame, fn_in>>

\* The caller goes on to its next lookup.
R_NextCall ==
    /\ fn_out # NoCall
    /\ fn_in' \in {c \in ResolverCalls : IsCall(c)}
    /\ fn_out' = NoCall
    /\ UNCHANGED resolverFrame

NextResolver == R_FindOne \/ R_FindMany \/ R_NextCall

SpecResolver == InitResolver /\ [][NextResolver]_vars

\* ---------------------------------------------------------- the extractors
\* extract_overall_rating and extract_stock_availability on their own: a
\* caller passes an element (or None) or a driver whose page holds the stock
\* elements, and the driver behaves in one of the ways it can.
T_RatingInt == <<"4">>
T_RatingDec == <<"4", ".", "5">>
T_RatingLong == <<"1", "0", ".", "2", "5">>
T_Total128 == <<"1", "2", "8">>
T_Total7 == <<"7">>
T_Qty12 == <<"1", "2", " ", "a", "v", "a", "i", "l", "a", "b", "l", "e">>

\* The parts a rating text is made of: what precedes the rating, the rating
\* x of 'x out of 5 stars' (or none), the n of 'n reviews' (or none).
RatingPrefixes == {<<>>, <<"R", "a", "t", "e", "d", " ">>, <<"v", "2", " ">>}
RatingParts == {<<>>, T_RatingInt, T_RatingDec, T_RatingLong}
TotalParts == {<<>>, T_Total128, T_Total7}

RatingText(pre, x, n) ==
    pre \o (IF Len(x) > 0 THEN x \o L_OutOf5Stars ELSE <<"n", "o", "n", "e">>)
        \o (IF Len(n) > 0 THEN <<",", " ">> \o n \o L_Reviews ELSE <<>>)

\* What a caller can pass as rating_element: None, or an element.
NoElement == safe_find_element(<<Outcome("nosuch", <<>>)>>)
Element(text) == safe_find_element(<<Outcome("found", text)>>)

StatusLists == {<<>>, <<L_InStock>>, <<L_OutOfStock>>}
QtyLists == {<<>>, <<T_Qty>>, <<T_Qty12>>, <<T_QtyNoInt>>}

IdleCall == fn_in = NoCall \/ fn_out # NoCall

\* A caller calls extract_overall_rating(rating_element).
X_CallRating ==
    /\ IdleCall
    /\ \E pre \in RatingPrefixes, x \in RatingParts, n \in TotalParts,
          none \in BOOLEAN, textOk \in BOOLEAN :
         fn_in' = [fn |-> "extract_overall_rating", pre |-> pre, x |-> x, n |-> n,
                   found |-> IF none THEN NoElement ELSE Element(RatingText(pre, x, n)),
                   textOk |-> textOk]
    /\ fn_out' = NoCall
    /\ UNCHANGED resolverFrame

\* extract_overall_rating runs and returns.
X_OverallRating ==
    /\ fn_in.fn = "extract_overall_rating"
    /\ fn_out = NoCall
    /\ fn_out' = [fn |-> fn_in.fn, r |-> extract_overall_rating(fn_in.found, fn_in.textOk)]
    /\ UNCHANGED <<resolverFrame, fn_in>>

\* A caller calls extract_stock_availability(driver).
X_CallStock ==
    /\ IdleCall
    /\ \E status \in StatusLists, qty \in QtyLists :
         \E outsStatus \in Waits(status, MaxFaults) :
           \E statusTextOk \in Tries(MaxFaults - Cost(outsStatus)) :
             \E outsQty \in Waits(qty, MaxFaults - Cost(outsStatus) - TryCost(statusTextOk)) :
               \E qtyTextOk \in Tries(MaxFaults - Cost(outsStatus) - TryCost(statusTextOk)
                                            - Cost(outsQty)) :
                 fn_in' = [fn |-> "extract_stock_availability",
                           status |-> status, qty |-> qty,
                           outsStatus |-> outsStatus, statusTextOk |-> statusTextOk,
                           outsQty |-> outsQty, qtyTextOk |-> qtyTextOk]
    /\ fn_out' = NoCall
    /\ UNCHANGED resolverFrame

\* extract_stock_availability runs and returns.
X_StockAvailability ==
    /\ fn_in.fn = "extract_stock_availability"
    /\ fn_out = NoCall
    /\ fn_out' = [fn |-> fn_in.fn,
                  r |-> extract_stock_availability(fn_in.outsStatus, fn_in.statusTextOk,
                                                   fn_in.outsQty, fn_in.qtyTextOk)]
    /\ UNCHANGED <<resolverFrame, fn_in>>

\* A caller calls setup_webdriver(headless, max_retries).
X_CallSetup ==
    /\ IdleCall
    /\ \E n \in (0 - 1)..DefaultMaxRetries, headless \in BOOLEAN :
         \E outs \in SetupOutcomes(n) :
            fn_in' = [fn |-> "setup_webdriver", headless |-> headless,
                      max_retries |-> n, outs |-> outs]
    /\ fn_out' = NoCall
    /\ UNCHANGED resolverFrame

\* setup_webdriver runs and returns or raises.
X_Setup ==
    /\ fn_in.fn = "setup_webdriver"
    /\ fn_out = NoCall
    /\ fn_out' = [fn |-> fn_in.fn, r |-> setup_webdriver(fn_in.max_retries, fn_in.outs, 0)]
    /\ UNCHANGED <<resolverFrame, fn_in>>

InitExtract ==
    /\ pc = "call"
    /\ max_retries = DefaultMaxRetries
    /\ attempt = 0
    /\ driver = "open"
    /\ quits = 0
    /\ idx = 1
    /\ total_attempted = 1
    /\ total_successful = 0
    /\ failed_products = <<>>
    /\ data = <<>>
    /\ output = None
    /\ calls = <<product_id_range[1]>>
    /\ ppc = "idle"
    /\ page = NoPage
    /\ row = EmptyDict
    /\ result = None
    /\ rpc = "idle"
    /\ review_elements = <<>>
    /\ bi = 1
    /\ reviewID = 0
    /\ review_data = EmptyDict
    /\ reviews = <<>>
    /\ faults = 0
    /\ errlog = <<>>
    /\ fn_in = NoCall
    /\ fn_out = NoCall
    /\ gpc = "idle"
    /\ current_page = 1
    /\ product_urls = <<>>
    /\ url_i = 1

NextExtract ==
    \/ X_CallRating
    \/ X_OverallRating
    \/ X_CallStock
    \/ X_StockAvailability
    \/ X_CallSetup
    \/ X_Setup

SpecExtract == InitExtract /\ [][NextExtract]_vars

\* ---------------------------------------------------- the paginated script
\* alternate/paginatedProject.py walks the listing pages and scrapes every
\* product they link to with the driver's own find_element and find_elements:
\* no wait, no retry, and outside the review loop no except clause, so that an
\* exception there ends the script.
MaxListPages == 2

L_SkuColon == <<"S", "K", "U", ":">>

RECURSIVE SkipSpaces(_)
SkipSpaces(s) == IF Len(s) > 0 /\ s[1] = " " THEN SkipSpaces(Tail(s)) ELSE s

\* re.sub(r"SKU:\s*", "", s)
RECURSIVE SubSkuPrefix(_)
SubSkuPrefix(s) ==
    IF Len(s) = 0 THEN s
    ELSE IF LitAt(s, 1, L_SkuColon)
         THEN SubSkuPrefix(SkipSpaces(SubSeq(s, Len(L_SkuColon) + 1, Len(s))))
    ELSE <<s[1]>> \o SubSkuPrefix(Tail(s))

\* The product links of listing page n: the site has at most MaxListPages
\* listing pages with a product on them.
ListingLinks(n) ==
    IF n > MaxListPages THEN {<<>>} ELSE {<<>>} \cup {<<pg>> : pg \in Pages}

NoSuchElement == Raised("NoSuchElementException", 0, <<>>)

\* row["Stock Available"] of the paginated script.
PG_Stock(pg) ==
    LET stock_status_text == Matches(pg, "status")[1]
        qty == Matches(pg, "qty")
        number == SearchInteger(qty[1])
    IN  IF Contains(stock_status_text, L_OutOfStock) THEN Ok(IntV(0), 0, <<>>)
        ELSE IF Contains(stock_status_text, L_InStock)
             THEN IF Len(qty) = 0 THEN NoSuchElement
                  ELSE IF Len(number) = 0 THEN Raised("AttributeError", 0, <<>>)
                  ELSE Ok(IntV(PyInt(number[1])), 0, <<>>)
        ELSE Ok(StrV(L_NA), 0, <<>>)

PagRowKeys ==
    {"Product Title", "Price", "Categories", "Product Image URLs", "Description",
     "Overall Rating", "Total Reviews", "Stock Status", "Stock Available", "SKU",
     "Product Checksum"}

\* The row of a product page before its reviews, or the exception that ends
\* the script.
PG_RowOf(pg) ==
    LET texts(loc) == ListV([i \in 1..Len(Matches(pg, loc)) |-> StrV(Matches(pg, loc)[i])])
        overall_rating_text == Matches(pg, "rating")[1]
        overall_rating_match == SearchOverallRating(overall_rating_text)
        total == SearchTotalReviews(overall_rating_text)
        stock == PG_Stock(pg)
        value(k) ==
            CASE k = "Product Title" -> StrV(Matches(pg, "h1")[1])
              [] k = "Price" -> StrV(Matches(pg, "price")[1])
              [] k = "Categories" -> texts("categories")
              [] k = "Product Image URLs" -> texts("images")
              [] k = "Description" -> StrV(Matches(pg, "description")[1])
              [] k = "Overall Rating" ->
                    IF Len(overall_rating_match) > 0
                    THEN StrV(overall_rating_match[1] \o L_Slash5Stars)
                    ELSE StrV(L_NA)
              [] k = "Total Reviews" ->
                    IF Len(total) > 0 THEN IntV(PyInt(total[1])) ELSE StrV(L_NA)
              [] k = "Stock Status" -> StrV(Matches(pg, "status")[1])
              [] k = "Stock Available" -> stock.val
              [] k = "SKU" -> StrV(SubSkuPrefix(Matches(pg, "sku")[1]))
              [] k = "Product Checksum" ->
                    IF Len(Matches(pg, "code")) > 0
                    THEN StrV(Matches(pg, "code")[1])
                    ELSE StrV(L_NA)
    IN  IF \E loc \in {"h1", "price", "description", "rating", "status"} :
               Len(Matches(pg, loc)) = 0
        THEN NoSuchElement
        ELSE IF ~stock.ok THEN stock
        ELSE IF Len(Matches(pg, "sku")) = 0 THEN NoSuchElement
        ELSE Ok([k \in PagRowKeys |-> value(k)], 0, <<>>)

\* Mutant: the review title is looked up inside the review block.
PG_StatementsOwnTitle(b, pg) ==
    LET info == BlockMatches(b, "info")
        name_match == SearchReviewerName(info[1])
        titles == BlockMatches(b, "title")
        review_p_elements == BlockPs(b)
        match == SearchReviewDate(review_p_elements[Len(review_p_elements)])
        firstOr(m) == Ok(StrV(IF Len(m) > 0 THEN m[1] ELSE L_NA), 0, <<>>)
    IN  << [key |-> "Reviewer Name",
            r |-> IF Len(info) = 0 THEN NoSuchElement ELSE firstOr(name_match)],
           [key |-> "Rating",
            r |-> Ok(StrV(PyStr(Len(BlockMatches(b, "stars"))) \o L_Slash5Stars), 0, <<>>)],
           [key |-> "Review Title",
            r |-> IF Len(titles) = 0 THEN NoSuchElement ELSE firstOr(titles)],
           [key |-> "Review Date",
            r |-> IF Len(review_p_elements) > 1 THEN firstOr(match) ELSE firstOr(<<>>)],
           [key |-> "Review Body", r |-> firstOr(BlockMatches(b, "body"))],
           [key |-> "Review Checksum", r |-> firstOr(BlockMatches(b, "code"))] >>

\* The six assignments of the try block after review_data["Review ID"], in
\* order: the key and the value, or the exception the statement raises.
PG_Statements(b, pg) ==
    LET info == BlockMatches(b, "info")
        name_match == SearchReviewerName(info[1])
        titles == Matches(pg, "review_title")
        review_p_elements == BlockPs(b)
        match == SearchReviewDate(review_p_elements[Len(review_p_elements)])
        firstOr(m) == Ok(StrV(IF Len(m) > 0 THEN m[1] ELSE L_NA), 0, <<>>)
    IN  << [key |-> "Reviewer Name",
            r |-> IF Len(info) = 0 THEN NoSuchElement ELSE firstOr(name_match)],
           [key |-> "Rating",
            r |-> Ok(StrV(PyStr(Len(BlockMatches(b, "stars"))) \o L_Slash5Stars), 0, <<>>)],
           [key |-> "Review Title",
            r |-> IF Len(titles) = 0 THEN NoSuchElement ELSE firstOr(titles)],
           [key |-> "Review Date",
            r |-> IF Len(review_p_elements) > 1 THEN firstOr(match) ELSE firstOr(<<>>)],
           [key |-> "Review Body", r |-> firstOr(BlockMatches(b, "body"))],
           [key |-> "Review Checksum", r |-> firstOr(BlockMatches(b, "code"))] >>

\* review_data after the try block: the assignments up to the first statement
\* that raises (fault is the statement the driver fails in, 0 for none).
RECURSIVE PG_Run(_, _, _, _)
PG_Run(stmts, d, fault, i) ==
    IF i > Len(stmts) \/ i = fault \/ ~stmts[i].r.ok THEN d
    ELSE PG_Run(stmts, Put(d, stmts[i].key, stmts[i].r.val), fault, i + 1)

\* The statements the driver can fail in: those the try block gets to.
PG_Faults(stmts, left) ==
    IF left = 0 THEN {0}
    ELSE {0} \cup {i \in 1..Len(stmts) : \A j \in 1..(i - 1) : stmts[j].r.ok}

pgFrame ==
    <<fn_in, fn_out, pc, max_retries, attempt, quits, idx, total_attempted,
      total_successful, failed_products, calls, ppc, result, rpc, errlog>>

\* The head of `while True`: load listing page current_page and collect its
\* product links; without links the loop is left.
PG_List ==
    /\ gpc = "list"
    /\ \E ok \in Tries(Left) :
         IF ~ok
         THEN /\ gpc' = "crashed"
              /\ faults' = faults + 1
              /\ UNCHANGED <<product_urls, url_i>>
         ELSE /\ \E urls \in ListingLinks(current_page) :
                   /\ product_urls' = urls
                   /\ gpc' = IF Len(urls) = 0 THEN "write" ELSE "product"
              /\ url_i' = 1
              /\ UNCHANGED faults
    /\ UNCHANGED <<pgFrame, current_page, page, row, data, output, driver, reviewVars>>

\* The head of `for url in product_urls` and the row of the product up to its
\* checksum; after the last link, current_page += 1.
PG_Product ==
    /\ gpc = "product"
    /\ IF url_i > Len(product_urls)
       THEN /\ current_page' = current_page + 1
            /\ gpc' = "list"
            /\ UNCHANGED <<page, row, faults>>
       ELSE /\ page' = product_urls[url_i]
            /\ \E ok \in Tries(Left) :
                 LET r == PG_RowOf(page')
                 IN  IF ok /\ r.ok
                     THEN row' = r.val /\ gpc' = "reviews" /\ UNCHANGED faults
                     ELSE /\ gpc' = "crashed"
                          /\ faults' = faults + TryCost(ok)
                          /\ row' = EmptyDict
            /\ UNCHANGED current_page
    /\ UNCHANGED <<pgFrame, product_urls, url_i, data, output, driver, reviewVars>>

\* reviews = [], the review blocks of the page, reviewID = 0.
PG_FindReviews ==
    /\ gpc = "reviews"
    /\ \E ok \in Tries(Left) :
         IF ok
         THEN /\ review_elements' = Matches(page, "blocks")
              /\ reviews' = <<>>
              /\ reviewID' = 0
              /\ bi' = 1
              /\ gpc' = "review"
              /\ UNCHANGED <<faults, row>>
         ELSE /\ gpc' = "crashed"
              /\ faults' = faults + 1
              /\ row' = EmptyDict
              /\ UNCHANGED <<review_elements, reviews, reviewID, bi>>
    /\ UNCHANGED <<pgFrame, current_page, product_urls, url_i, page, data, output,
                   driver, rpc, review_data>>

\* One pass of `for review in review_elements`: the try block, its except
\* clause and reviews.append(review_data); after the last block the row gets
\* its reviews and is appended to data.
PG_Review ==
    /\ gpc = "review"
    /\ IF bi > Len(review_elements)
       THEN /\ data' = Append(data, Dict(Put(row, "Customer Reviews", ListV(reviews))))
            /\ url_i' = url_i + 1
            /\ gpc' = "product"
            /\ row' = EmptyDict
            /\ review_elements' = <<>>
            /\ reviews' = <<>>
            /\ review_data' = EmptyDict
            /\ reviewID' = 0
            /\ bi' = 1
            /\ UNCHANGED faults
       ELSE LET stmts == PG_Statements(review_elements[bi], page)
            IN  \E fault \in PG_Faults(stmts, Left) :
                  /\ reviewID' = reviewID + 1
                  /\ review_data' =
                        PG_Run(stmts, Put(EmptyDict, "Review ID", IntV(reviewID + 1)), fault, 1)
                  /\ reviews' = Append(reviews, review_data')
                  /\ bi' = bi + 1
                  /\ faults' = faults + (IF fault = 0 THEN 0 ELSE 1)
                  /\ UNCHANGED <<data, url_i, gpc, row, review_elements>>
    /\ UNCHANGED <<pgFrame, current_page, product_urls, page, output, driver, rpc>>

\* json.dump(data, json_file, indent=4)
PG_Write ==
    /\ gpc = "write"
    /\ \E ok \in BOOLEAN :
         IF ok THEN output' = ListV(data) /\ gpc' = "close"
         ELSE gpc' = "crashed" /\ UNCHANGED output
    /\ UNCHANGED <<pgFrame, current_page, product_urls, url_i, page, row, data,
                   driver, faults, reviewVars>>

\* driver.close()
PG_Close ==
    /\ gpc = "close"
    /\ driver' = "closed"
    /\ gpc' = "done"
    /\ UNCHANGED <<pgFrame, current_page, product_urls, url_i, page, row, data,
                   output, faults, reviewVars>>

InitPaginated ==
    /\ pc = "idle"
    /\ max_retries = DefaultMaxRetries
    /\ attempt = 0
    /\ driver = "open"
    /\ quits = 0
    /\ idx = 1
    /\ total_attempted = 0
    /\ total_successful = 0
    /\ failed_products = <<>>
    /\ data = <<>>
    /\ output = None
    /\ calls = <<>>
    /\ ppc = "idle"
    /\ page = NoPage
    /\ row = EmptyDict
    /\ result = None
    /\ rpc = "idle"
    /\ review_elements = <<>>
    /\ bi = 1
    /\ reviewID = 0
    /\ review_data = EmptyDict
    /\ reviews = <<>>
    /\ faults = 0
    /\ errlog = <<>>
    /\ fn_in = NoCall
    /\ fn_out = NoCall
    /\ gpc = "list"
    /\ current_page = 1
    /\ product_urls = <<>>
    /\ url_i = 1

NextPaginated ==
    \/ PG_List
    \/ PG_Product
    \/ PG_FindReviews
    \/ PG_Review
    \/ PG_Write
    \/ PG_Close

SpecPaginated == InitPaginated /\ [][NextPaginated]_vars

\* ----------------------------------------------------------------- claims

ProductKeys ==
    {"Product Title", "Price", "Categories", "Product Image URLs", "Description",
     "Overall Rating", "Total Reviews", "Inventory Status",
     "Inventory Stock Available", "SKU", "Product Checksum", "Customer Reviews"}

\* The optional fields of a product page: locator, key and documented fallback.
OptionalFields ==
    { [loc |-> "price", key |-> "Price", fallback |-> L_PriceUnavailable],
      [loc |-> "description", key |-> "Description", fallback |-> L_NoDescription],
      [loc |-> "rating", key |-> "Overall Rating", fallback |-> L_NA],
      [loc |-> "status", key |-> "Inventory Status", fallback |-> L_StockStatusUnavailable],
      [loc |-> "sku", key |-> "SKU", fallback |-> L_SkuUnavailable] }

Returned == ppc = "returned"
IsRecord(v) == v.kind = "dict"
CountAt(at) == Len(SelectSeq(errlog, LAMBDA l : l.at = at))

\* C1: when scrape_product has returned for a page that shows the title but
\* lacks an optional element, and no transient fault occurred, the result is a
\* record that holds the field's key with its documented fallback.
C1_MissingOptionalFieldGetsFallback ==
    \A f \in OptionalFields :
        ( /\ Returned
          /\ driver = "open"
          /\ faults = 0
          /\ Len(Matches(page, "h1")) > 0
          /\ Len(Matches(page, f.loc)) = 0 )
        => /\ IsRecord(result)
           /\ f.key \in DOMAIN result.val
           /\ result.val[f.key] = StrV(f.fallback)

\* C2 as stated: whenever safe_find_element has raised ScraperError during a
\* call of scrape_product, the call still returns a record with every key.
C2_FieldFaultKeepsRecord ==
    (Returned /\ CountAt("safe_find_element") > 0)
        => IsRecord(result) /\ DOMAIN result.val = ProductKeys

\* C2 as amended: every ScraperError of safe_find_element is caught by the
\* nearest enclosing except clause. Raised while scrape_product itself
\* extracts a field it is caught by scrape_product's except clause, which is
\* the last thing the call does, and the call returns None; raised inside
\* extract_stock_availability it leaves "N/A" in Inventory Stock Available of
\* any record returned; raised inside a review block it skips that review.
C2_FieldFaultAbandonsRecord ==
    Returned =>
        \A i \in DOMAIN errlog :
            errlog[i].at = "safe_find_element" =>
                /\ i < Len(errlog)
                /\ errlog[i + 1].exc = "ScraperError"
                /\ \/ /\ errlog[i + 1].at = "scrape_product"
                      /\ i + 1 = Len(errlog)
                      /\ result = None
                   \/ /\ errlog[i + 1].at = "extract_stock_availability"
                      /\ IsRecord(result) =>
                            result.val["Inventory Stock Available"] = StrV(L_NA)
                   \/ errlog[i + 1].at = "extract_reviews"

\* C2 witness: on the full page an unexpected error of the driver in a field
\* lookup ended the call with None.
C2_Witness ==
    /\ Returned
    /\ page = PageFull
    /\ errlog = << LogLine("safe_find_element", "WebDriverException"),
                   LogLine("scrape_product", "ScraperError") >>
    /\ result = None

\* C3: while the loaded page shows no title heading, scrape_product is in no
\* field extractor and holds no field, and when it has returned the result is
\* None.
C3_NoTitleReturnsNone ==
    (driver = "open" /\ Len(Matches(page, "h1")) = 0)
        => /\ ppc \in {"idle", "nav", "returned"}
           /\ rpc = "idle"
           /\ DOMAIN row = {}
           /\ Returned => result = None

\* C3 witness: a page without title was loaded, the wait timed out and None
\* was returned.
C3_Witness ==
    /\ Returned
    /\ page = [PageFull EXCEPT !.h1 = <<>>]
    /\ errlog = <<LogLine("scrape_product", "TimeoutException")>>
    /\ result = None

\* C4: a call of scrape_product that has ended returned None or a record with
\* exactly the twelve keys; it did not raise.
C4_NoneOrFullRecord ==
    Returned =>
        /\ result.kind # "raised"
        /\ result = None \/ (IsRecord(result) /\ DOMAIN result.val = ProductKeys)

\* C4 witness: a full record was returned by a call that met a fault, which
\* left a fallback in it.
C4_Witness ==
    /\ Returned
    /\ IsRecord(result)
    /\ faults > 0
    /\ result.val["Inventory Stock Available"] = StrV(L_NA)
    /\ DOMAIN result.val = ProductKeys

ReviewIds(revs) == [i \in 1..Len(revs) |-> revs[i]["Review ID"].val]

\* C5: in extract_reviews, the blocks before the current one are all settled:
\* each either faulted (one ERROR line of the loop's except clause) or is in
\* reviews, in page order, and reviews is returned only after the last block,
\* as it stands.
C5_FaultSkipsOneReview ==
    /\ [](rpc # "idle" =>
            /\ bi <= Len(review_elements) + 1
            /\ Len(reviews) + CountAt("extract_reviews") = bi - 1
            /\ \A i \in 1..Len(reviews) :
                  /\ ReviewIds(reviews)[i] \in 1..(bi - 1)
                  /\ i > 1 => ReviewIds(reviews)[i - 1] < ReviewIds(reviews)[i])
    /\ [][(rpc = "begin" /\ ppc' = "returned") =>
            /\ bi = Len(review_elements) + 1
            /\ IsRecord(result')
            /\ result'.val["Customer Reviews"] = ListV(reviews)]_vars

\* C5 witness: the first of two blocks faulted, the second one was extracted.
C5_Witness ==
    /\ rpc = "begin"
    /\ Len(review_elements) = 2
    /\ bi = 3
    /\ CountAt("extract_reviews") = 1
    /\ ReviewIds(reviews) = <<2>>

\* C6: a call of safe_find_element whose locator matches nothing, and whose
\* last wait therefore ran until the timeout, returns None.
C6_TimeoutReturnsNone ==
    ( /\ fn_out # NoCall
      /\ fn_in.fn = "safe_find_element"
      /\ Len(fn_in.matches) = 0
      /\ fn_in.outs[Len(fn_in.outs)].kind = "timeout" )
    => fn_out.r.res = "none"

\* C7: a call of safe_find_elements makes one lookup, returns what the lookup
\* matched, or the empty list when the lookup raised, and raises nothing.
C7_FindManyOneLookup ==
    (fn_out # NoCall /\ fn_in.fn = "safe_find_elements")
    => /\ fn_out.r.lookups = 1
       /\ fn_out.r.res = "list"
       /\ fn_out.r.elems = (IF fn_in.ok THEN fn_in.matches ELSE <<>>)
       /\ Len(fn_out.r.log) = (IF fn_in.ok THEN 0 ELSE 1)

\* C7 witness: the lookup of a locator that matches two elements raised and
\* the empty list was returned.
C7_Witness ==
    /\ fn_out # NoCall
    /\ fn_in.fn = "safe_find_elements"
    /\ ~fn_in.ok
    /\ Len(fn_in.matches) = 2
    /\ fn_out.r.elems = <<>>

\* C8: the calls of scrape_product made so far are the first ids of
\* product_id_range, one call per id and in range order; the loop is left only
\* for json.dump, after the call for the last id, whatever the calls returned.
C8_EveryIdOnceInOrder ==
    /\ [](/\ Len(calls) <= Len(product_id_range)
          /\ calls = SubSeq(product_id_range, 1, Len(calls))
          /\ Len(data) + Len(failed_products) = idx - 1
          /\ pc \in {"write", "summary"} => calls = product_id_range
          /\ (pc \in {"finally", "done"} /\ driver # "none") => calls = product_id_range)
    /\ [][(pc \in {"loop", "call"}) => (pc' \in {"loop", "call", "write"})]_vars
    /\ [][(pc = "loop" /\ pc' = "write") => calls = product_id_range]_vars

\* C8 witness: the first product failed, the second was still scraped.
C8_Witness ==
    /\ pc = "done"
    /\ failed_products = <<product_id_range[1]>>
    /\ Len(data) = 1
    /\ calls = product_id_range

\* C9: a session that setup_webdriver returned is quit at most once, is quit
\* when main is done, and is not quit before scrape_product has been called
\* for the last id.
C9_SessionQuitOnce ==
    /\ quits <= 1
    /\ (driver = "closed") = (quits = 1)
    /\ pc = "done" => driver # "open"
    /\ driver = "closed" => (pc = "done" /\ calls = product_id_range)

\* C9 witness: json.dump raised and the session was quit all the same.
C9_Witness ==
    /\ pc = "done"
    /\ output = None
    /\ driver = "closed"
    /\ quits = 1
    /\ calls = product_id_range

ReviewKeys ==
    {"Review ID", "Name", "Rating", "Title", "Date", "Review Body", "Review Checksum"}
PagReviewKeys ==
    {"Review ID", "Reviewer Name", "Rating", "Review Title", "Review Date",
     "Review Body", "Review Checksum"}

\* The review records of a product record all have the seven keys.
ReviewsComplete(v, keys) ==
    IsRecord(v) =>
        \A i \in DOMAIN v.val["Customer Reviews"].val :
            DOMAIN v.val["Customer Reviews"].val[i] = keys

\* C10: every review record of a product record that scrape_product returned
\* or that either script appended to data has all seven review keys.
C10_ReviewRecordsComplete ==
    /\ Returned => ReviewsComplete(result, ReviewKeys)
    /\ \A i \in DOMAIN data :
          ReviewsComplete(data[i], IF gpc = "idle" THEN ReviewKeys ELSE PagReviewKeys)

LastKind(outs) == outs[Len(outs)].kind

\* C11: a call of extract_stock_availability raises nothing and returns 0,
\* without a lookup of the quantity element, when the status text says 'Out
\* of stock'; when it says 'In stock', the first integer of the quantity text,
\* or 'Unspecified Stock' when the quantity element is not found or its text
\* holds no integer; and 'N/A' in every other case and on a fault.
C11_StockAvailability ==
    (fn_out # NoCall /\ fn_in.fn = "extract_stock_availability") =>
        LET r == fn_out.r
            statusRead == LastKind(fn_in.outsStatus) = "found" /\ fn_in.statusTextOk
            qLast == LastKind(fn_in.outsQty)
        IN  /\ r.ok
            /\ IF statusRead /\ Contains(fn_in.status[1], L_OutOfStock)
               THEN r.val = IntV(0) /\ ~r.qtyLookup
               ELSE IF statusRead /\ Contains(fn_in.status[1], L_InStock)
               THEN IF qLast = "timeout" THEN r.val = StrV(L_UnspecifiedStock)
                    ELSE IF qLast = "found" /\ fn_in.qtyTextOk
                    THEN r.val = (IF fn_in.qty[1] = T_QtyNoInt
                                  THEN StrV(L_UnspecifiedStock)
                                  ELSE IntV(12))
                    ELSE r.val = StrV(L_NA)
               ELSE r.val = StrV(L_NA)

\* C12: a call of extract_overall_rating raises nothing; given no element, or
\* an element whose text cannot be read, it returns ('N/A', 'N/A'); given a
\* text, the overall rating is 'x/5 Stars' when the text holds 'x out of 5
\* stars' and 'N/A' if not, and the total is n when the text holds 'n
\* reviews' and 'N/A' if not, each whatever the other is.
C12_OverallRating ==
    (fn_out # NoCall /\ fn_in.fn = "extract_overall_rating") =>
        /\ fn_out.r.ok
        /\ fn_out.r.val =
             IF fn_in.found.res # "elem" \/ ~fn_in.textOk
             THEN <<StrV(L_NA), StrV(L_NA)>>
             ELSE << IF Len(fn_in.x) > 0 THEN StrV(fn_in.x \o L_Slash5Stars)
                     ELSE StrV(L_NA),
                     IF fn_in.n = T_Total128 THEN IntV(128)
                     ELSE IF fn_in.n = T_Total7 THEN IntV(7)
                     ELSE StrV(L_NA) >>

\* C12 witness: '4.5 out of 5 stars, 128 reviews' gave '4.5/5 Stars' and 128.
C12_Witness ==
    /\ fn_out # NoCall
    /\ fn_in.fn = "extract_overall_rating"
    /\ fn_in.found.res = "elem"
    /\ fn_in.found.elem = T_Rating
    /\ fn_in.textOk
    /\ fn_out.r.val = << StrV(<<"4", ".", "5", "/", "5", " ", "S", "t", "a", "r", "s">>),
                         IntV(128) >>

\* A text without its leading 'SKU: ', if it has one.
StripLeadingSku(t) ==
    IF LitAt(t, 1, L_SkuPrefix) THEN SubSeq(t, Len(L_SkuPrefix) + 1, Len(t)) ELSE t

\* C13: the SKU that scrape_product stores is the text of the SKU element
\* without a leading 'SKU: ' and otherwise unchanged.
C13_SkuPrefixStripped ==
    ("SKU" \in DOMAIN row /\ Len(Matches(page, "sku")) > 0) =>
        row["SKU"] = StrV(StripLeadingSku(Matches(page, "sku")[1]))

\* Whether every one of the first n attempts raised WebDriverException.
AllAttemptsFailed(outs, n) ==
    \A j \in 1..n : outs[j] = "WebDriverException"

\* C14: setup_webdriver makes at most max_retries attempts, returns the driver
\* of the first attempt that succeeds, raises ScraperError exactly when all
\* max_retries attempts failed with WebDriverException, and, whatever
\* max_retries is, ends with a driver or with ScraperError when its attempts
\* only succeed or fail with WebDriverException: it never returns without a
\* driver.
C14_SetupReturnsDriverOrRaises ==
    (fn_out # NoCall /\ fn_in.fn = "setup_webdriver") =>
        LET r == fn_out.r
            n == fn_in.max_retries
            outs == fn_in.outs
        IN  /\ r.attempts <= (IF n > 0 THEN n ELSE 0)
            /\ r.res = "driver" =>
                   /\ outs[r.attempts] = "driver"
                   /\ \A j \in 1..(r.attempts - 1) : outs[j] # "driver"
            /\ (r.res = "raise" /\ r.exc = "ScraperError") <=>
                   (n > 0 /\ AllAttemptsFailed(outs, n))
            /\ (\A j \in DOMAIN outs : outs[j] # "Exception") =>
                   (r.res = "driver" \/ (r.res = "raise" /\ r.exc = "ScraperError"))

\* The last element of a non-empty sequence.
Last(seq) == seq[Len(seq)]

ReturnedReviewIds == ReviewIds(result.val["Customer Reviews"].val)

\* C16: the n reviews returned for one product have the IDs 1, 2, ..., n in
\* order, without gap or repeat, also when review blocks faulted and were
\* skipped.
C16_IdsSequentialNoGap ==
    (ppc = "returned" /\ IsRecord(result)) =>
        ReturnedReviewIds = [i \in 1..Len(ReturnedReviewIds) |-> i]

\* C16 as the code has it: the ID of a review is the 1-based position of its
\* block among the review blocks of the page. The IDs of the returned reviews
\* increase strictly, are 1, 2, ..., n when no block was skipped, and leave
\* out the position of every skipped block.
C16_IdIsBlockPosition ==
    /\ [][(rpc # "idle" /\ reviews' # reviews /\ rpc' # "idle") =>
            /\ reviews' = Append(reviews, review_data')
            /\ review_data'["Review ID"] = IntV(bi)]_vars
    /\ [](rpc # "idle" =>
            /\ reviewID = (IF rpc = "begin" THEN bi - 1 ELSE bi)
            /\ \A i \in 1..Len(reviews) :
                  /\ ReviewIds(reviews)[i] >= i
                  /\ i > 1 => ReviewIds(reviews)[i - 1] < ReviewIds(reviews)[i]
            /\ CountAt("extract_reviews") = 0 =>
                  ReviewIds(reviews) = [i \in 1..Len(reviews) |-> i])
    /\ []((ppc = "returned" /\ IsRecord(result)) =>
            /\ Len(ReturnedReviewIds) + CountAt("extract_reviews")
                  \in {0, Len(Matches(page, "blocks"))}
            /\ \A i \in 1..Len(ReturnedReviewIds) :
                  ReturnedReviewIds[i] \in 1..Len(Matches(page, "blocks")))

\* C16 witness: of two review blocks the first was skipped, and the record
\* returned for the product holds the one review with ID 2.
C16_Witness ==
    /\ ppc = "returned"
    /\ IsRecord(result)
    /\ Len(Matches(page, "blocks")) = 2
    /\ CountAt("extract_reviews") = 1
    /\ ReturnedReviewIds = <<2>>

MainTitleFromOwnBlock ==
    rpc # "idle" =>
        \A i \in 1..Len(reviews) :
            LET own == BlockMatches(review_elements[ReviewIds(reviews)[i]], "title")
            IN  reviews[i]["Title"] = StrV(own[1])

====
